---- MODULE Spec2Model ----
(***************************************************************************)
(* Model of the sample-domain stream scrambler (Scrambler.py).             *)
(*                                                                         *)
(* An AudioScrambler instance is a record; every method is an operator     *)
(* from the instance (and its arguments) to the instance afterwards, the   *)
(* returned value and the exception raised, translated statement by        *)
(* statement.  NumPy arrays are records [shape, flat]; a Generator is a    *)
(* record [seed, pos] where pos counts the 32-bit words taken from the     *)
(* bit generator since default_rng(seed).                                  *)
(***************************************************************************)
EXTENDS Integers, Sequences, FiniteSets, TLC

VARIABLES
  pcg64,    \* pcg64[s][i]: the i-th 32-bit output of the bit generator seeded with s,
            \* for the seed s the instance is constructed with
  self,     \* the AudioScrambler instance
  last,     \* the last call made on the instance and its outcome
  hist,     \* history of the streaming session since the last init_stream
  core,     \* a sequence of direct _apply_mask_core calls on one matrix
  fs,       \* the WAV files on disk, by path
  rx,       \* a second instance, built from the same seed, that replays the
            \* calls of the streaming session on what `self` returned
  win       \* the MainWindow: the fields its button handlers read and write

vars == <<pcg64, self, last, hist, core, fs, rx, win>>

----------------------------------------------------------------------------
(* Bounds *)

MaxWords   == 2    \* 32-bit words of every bit-generator stream that are modelled
MaxSamples == 4    \* samples fed to one streaming session / one matrix
MaxCh      == 2    \* largest channel count / column count
MaxCalls   == 2    \* chunk calls per streaming session

DefaultSeed == 12345
Seeds       == {DefaultSeed, DefaultSeed + 1}

\* A 32-bit word is <<low 16 bits, high 16 bits>>.
Words == { <<255, 32768>>, <<65280, 32767>> }

None == <<>>
Some(v) == <<v>>
Val(o) == o[1]

INT32_MIN == -2147483647 - 1
INT32_MAX == 2147483647

----------------------------------------------------------------------------
(* Fixed-width integer arithmetic *)

RECURSIVE BitXor(_, _)
\* XOR of two naturals, bit by bit
BitXor(a, b) ==
  IF a = 0 THEN b
  ELSE IF b = 0 THEN a
  ELSE (((a % 2) + (b % 2)) % 2) + 2 * BitXor(a \div 2, b \div 2)

\* two's complement reinterpretation, 16 bits
ToU16(v) == v % 65536
ToI16(u) == IF u % 65536 >= 32768 THEN (u % 65536) - 65536 ELSE u % 65536

\* a signed 32-bit value as <<low half, high half>> and back
Halves(v) == << v % 65536, (v \div 65536) % 65536 >>
FromHalves(h) == ToI16(h[2]) * 65536 + h[1]

xor_uint8(a, b) == BitXor(a, b)
xor_int16(a, b) == ToI16(BitXor(ToU16(a), ToU16(b)))
xor_int32(a, b) ==
  FromHalves(<< BitXor(Halves(a)[1], Halves(b)[1]),
                BitXor(Halves(a)[2], Halves(b)[2]) >>)

\* int16 array + small Python int: the sum wraps in 16 bits
add_int16(a, b) == ToI16(a + b)

\* ndarray.astype for values the model carries as integers
astype_uint8(v) == v % 256
astype_int16(v) == ToI16(v)
astype_int32(v) == v

----------------------------------------------------------------------------
(* NumPy arrays *)

Arr1(s)       == [shape |-> <<Len(s)>>, flat |-> s]
Arr2(f, k, s) == [shape |-> <<f, k>>, flat |-> s]
ndim(a)       == Len(a.shape)

\* a.reshape(-1, n): ValueError when the size is no multiple of n
can_reshape_cols(a, n) == n > 0 /\ Len(a.flat) % n = 0
reshape_cols(a, n)     == Arr2(Len(a.flat) \div n, n, a.flat)

Ceil(n, d) == (n + d - 1) \div d

----------------------------------------------------------------------------
(* numpy.random.Generator over PCG64 *)

default_rng(seed) == [seed |-> seed, pos |-> 0]

\* the i-th 32-bit word the generator will take next (i = 0 is the next one)
next_uint32(rng, i) == pcg64[rng.seed][rng.pos + i]

\* 32-bit words one integers(size=n) call takes: the 8- and 16-bit fills
\* cut each word into 4 or 2 values and drop what is left at the end of the
\* call
WordsTaken(sampwidth, n) ==
  CASE sampwidth = 1 -> Ceil(n, 4)
    [] sampwidth = 2 -> Ceil(n, 2)
    [] sampwidth = 4 -> n
    [] OTHER -> 0

ByteOf(w, j) ==
  CASE j = 0 -> w[1] % 256
    [] j = 1 -> w[1] \div 256
    [] j = 2 -> w[2] % 256
    [] OTHER -> w[2] \div 256

\* rng.integers(low=0, high=256, size=n, dtype=uint8)
integers_uint8(rng, n) ==
  [j \in 1..n |-> ByteOf(next_uint32(rng, (j - 1) \div 4), (j - 1) % 4)]

\* rng.integers(low=-32768, high=32768, size=n, dtype=int16): off + value,
\* off = uint16(-32768)
integers_int16(rng, n) ==
  [j \in 1..n |->
     ToI16(32768 + next_uint32(rng, (j - 1) \div 2)[((j - 1) % 2) + 1])]

\* rng.integers(low=-2**31, high=2**31, size=n, dtype=int32): off + word,
\* off = uint32(-2**31)
integers_int32(rng, n) ==
  [j \in 1..n |->
     FromHalves(<< next_uint32(rng, j - 1)[1],
                   (next_uint32(rng, j - 1)[2] + 32768) % 65536 >>)]

advance(rng, sampwidth, n) ==
  [rng EXCEPT !.pos = rng.pos + WordsTaken(sampwidth, n)]

----------------------------------------------------------------------------
(* np.bitwise_xor on two 1-D arrays, with broadcasting *)

can_broadcast(a, b) == Len(a) = Len(b) \/ Len(a) = 1 \/ Len(b) = 1

broadcast_len(a, b) ==
  IF Len(a) = Len(b) THEN Len(a) ELSE IF Len(a) = 1 THEN Len(b) ELSE Len(a)

At(a, j) == IF Len(a) = 1 THEN a[1] ELSE a[j]

xor_dtype(dtype, x, y) ==
  CASE dtype = "uint8" -> xor_uint8(x, y)
    [] dtype = "int16" -> xor_int16(x, y)
    [] OTHER -> xor_int32(x, y)

bitwise_xor(dtype, a, b) ==
  [j \in 1..broadcast_len(a, b) |-> xor_dtype(dtype, At(a, j), At(b, j))]

----------------------------------------------------------------------------
(* AudioScrambler._apply_mask_core *)

Outcome(raised, ret, rng) == [raised |-> raised, ret |-> ret, rng |-> rng]

\* sampwidth == 1: base, mask, masked, result_flat
mask_width1(flat, n_samples_total, rng) ==
  LET base == [j \in 1..Len(flat) |-> astype_uint8(flat[j] + 128)]
      mask == integers_uint8(rng, n_samples_total)
  IN  IF can_broadcast(base, mask)
      THEN Some([j \in 1..broadcast_len(base, mask) |->
                   bitwise_xor("uint8", base, mask)[j] - 128])
      ELSE None

\* sampwidth == 2
mask_width2(flat, n_samples_total, rng) ==
  LET base == [j \in 1..Len(flat) |-> astype_int16(flat[j])]
      mask == integers_int16(rng, n_samples_total)
  IN  IF can_broadcast(base, mask)
      THEN Some(bitwise_xor("int16", base, mask))
      ELSE None

\* sampwidth == 4
mask_width4(flat, n_samples_total, rng) ==
  LET base == [j \in 1..Len(flat) |-> astype_int32(flat[j])]
      mask == integers_int32(rng, n_samples_total)
  IN  IF can_broadcast(base, mask)
      THEN Some(bitwise_xor("int32", base, mask))
      ELSE None

\* mask_flat whose 8-bit branch leaves its result in 0..255 (no `- 128`)
mask_flat_unsigned(flat, sampwidth, n_samples_total, rng) ==
  CASE sampwidth = 1 ->
         LET base == [j \in 1..Len(flat) |-> astype_uint8(flat[j] + 128)]
             mask == integers_uint8(rng, n_samples_total)
         IN  IF can_broadcast(base, mask)
             THEN Some(bitwise_xor("uint8", base, mask))
             ELSE None
    [] sampwidth = 2 -> mask_width2(flat, n_samples_total, rng)
    [] OTHER -> mask_width4(flat, n_samples_total, rng)

\* the three supported branches; None when bitwise_xor cannot broadcast
mask_flat(flat, sampwidth, n_samples_total, rng) ==
  CASE sampwidth = 1 -> mask_width1(flat, n_samples_total, rng)
    [] sampwidth = 2 -> mask_width2(flat, n_samples_total, rng)
    [] OTHER -> mask_width4(flat, n_samples_total, rng)

_apply_mask_core(data0, sampwidth, n_channels, rng) ==
  IF ndim(data0) # 2 /\ ~can_reshape_cols(data0, n_channels)
  THEN Outcome("ValueError", None, rng)
  ELSE
    LET data            == IF ndim(data0) # 2 THEN reshape_cols(data0, n_channels)
                           ELSE data0
        n_frames        == data.shape[1]
        n_samples_total == n_frames * n_channels
        flat            == data.flat
    IN  IF sampwidth \in {1, 2, 4}
        THEN LET result_flat == mask_flat(flat, sampwidth, n_samples_total, rng)
                 rng2        == advance(rng, sampwidth, n_samples_total)
             IN  IF result_flat = None
                 THEN Outcome("ValueError", None, rng2)
                 ELSE IF Len(Val(result_flat)) # n_frames * n_channels
                 THEN Outcome("ValueError", None, rng2)
                 ELSE Outcome("", Some(Arr2(n_frames, n_channels, Val(result_flat))), rng2)
        ELSE Outcome("", Some(data), rng)

----------------------------------------------------------------------------
(* AudioScrambler: constructor and streaming API *)

__init__(block_ms, seed) ==
  [ block_ms           |-> block_ms,
    seed               |-> seed,
    _stream_rng        |-> None,
    _stream_sampwidth  |-> None,
    _stream_n_channels |-> None ]

\* init_stream that builds the generator only when there is none yet
init_stream_keep(s, sampwidth, n_channels) ==
  [s EXCEPT !._stream_rng        = IF s._stream_rng = None
                                   THEN Some(default_rng(s.seed)) ELSE @,
            !._stream_sampwidth  = Some(sampwidth),
            !._stream_n_channels = Some(n_channels)]

init_stream(s, sampwidth, n_channels) ==
  [s EXCEPT !._stream_rng        = Some(default_rng(s.seed)),
            !._stream_sampwidth  = Some(sampwidth),
            !._stream_n_channels = Some(n_channels)]

\* the instance afterwards, the exception raised ("" for none), the value returned
Result(s, raised, ret) == [self |-> s, raised |-> raised, ret |-> ret]

\* an initialized chunk call, `trim` cutting a flat chunk down to whole
\* frames instead of raising
stream_chunk_variant(s, chunk, trim) ==
  LET sampwidth  == Val(s._stream_sampwidth)
      n_channels == Val(s._stream_n_channels)
      whole      == Len(chunk.flat) - (Len(chunk.flat) % n_channels)
  IN  IF ~trim /\ ndim(chunk) = 1 /\ Len(chunk.flat) % n_channels # 0
      THEN Result(s, "ValueError", None)
      ELSE
        LET data   == IF ndim(chunk) = 1
                      THEN Arr2(whole \div n_channels, n_channels,
                                SubSeq(chunk.flat, 1, whole))
                      ELSE chunk
            masked == _apply_mask_core(data, sampwidth, n_channels,
                                       Val(s._stream_rng))
            s2     == [s EXCEPT !._stream_rng = Some(masked.rng)]
        IN  IF masked.raised # ""
            THEN Result(s2, masked.raised, None)
            ELSE IF ndim(chunk) = 1
            THEN Result(s2, "", Some(Arr1(Val(masked.ret).flat)))
            ELSE Result(s2, "", masked.ret)

\* _process_stream_chunk that initializes a 16-bit mono stream on first use
_process_stream_chunk_lazy(s, chunk, mode) ==
  stream_chunk_variant(IF s._stream_rng = None THEN init_stream(s, 2, 1) ELSE s,
                       chunk, FALSE)

\* _process_stream_chunk that draws the keystream for a flat chunk before
\* it finds the chunk misaligned
_process_stream_chunk_late(s, chunk, mode) ==
  IF s._stream_rng = None
  THEN Result(s, "RuntimeError", None)
  ELSE IF ndim(chunk) = 1 /\ Len(chunk.flat) % Val(s._stream_n_channels) # 0
  THEN Result([s EXCEPT !._stream_rng =
                 Some(advance(Val(s._stream_rng), Val(s._stream_sampwidth),
                              Len(chunk.flat)))],
              "ValueError", None)
  ELSE stream_chunk_variant(s, chunk, FALSE)

\* _process_stream_chunk that drops the samples of an incomplete last frame
_process_stream_chunk_trim(s, chunk, mode) ==
  IF s._stream_rng = None
  THEN Result(s, "RuntimeError", None)
  ELSE stream_chunk_variant(s, chunk, TRUE)

_process_stream_chunk(s, chunk, mode) ==
  IF s._stream_rng = None
  THEN Result(s, "RuntimeError", None)
  ELSE IF s._stream_sampwidth = None \/ s._stream_n_channels = None
  THEN Result(s, "RuntimeError", None)
  ELSE
    LET sampwidth  == Val(s._stream_sampwidth)
        n_channels == Val(s._stream_n_channels)
    IN  IF ndim(chunk) = 1 /\ Len(chunk.flat) % n_channels # 0
        THEN Result(s, "ValueError", None)
        ELSE
          LET data   == IF ndim(chunk) = 1 THEN reshape_cols(chunk, n_channels)
                        ELSE chunk
              masked == _apply_mask_core(data, sampwidth, n_channels,
                                         Val(s._stream_rng))
              s2     == [s EXCEPT !._stream_rng = Some(masked.rng)]
          IN  IF masked.raised # ""
              THEN Result(s2, masked.raised, None)
              ELSE IF ndim(chunk) = 1
              THEN Result(s2, "", Some(Arr1(Val(masked.ret).flat)))
              ELSE Result(s2, "", masked.ret)

scramble_chunk(s, chunk)   == _process_stream_chunk(s, chunk, "scramble")

\* unscramble_chunk that masks with the keystream but leaves the generator
\* where it was
unscramble_chunk_peek(s, chunk) ==
  [_process_stream_chunk(s, chunk, "unscramble") EXCEPT !.self = s]

unscramble_chunk(s, chunk) == _process_stream_chunk(s, chunk, "unscramble")

----------------------------------------------------------------------------
(* WAV I/O helpers and the file-level API *)

\* a WAV file: header fields and the samples as stored (8-bit unsigned,
\* 16- and 32-bit signed), interleaved
Wav(nchannels, sampwidth, framerate, raw) ==
  [nchannels |-> nchannels, sampwidth |-> sampwidth, framerate |-> framerate,
   raw |-> raw]

\* a file wave.open cannot parse: no RIFF header (a zero-byte file), which
\* is also what a failed write leaves behind
Unparseable == Wav(0, 0, 0, <<>>)

ReadFailed == [data |-> None, sample_rate |-> 0, sampwidth |-> 0, n_channels |-> 0]

\* _read_wav_int with the width check and the trim of an incomplete last
\* frame switched on or off
read_wav_variant(files, path, check_width, trim) ==
  IF files[path] = None
  THEN ReadFailed
  ELSE IF Val(files[path]).nchannels < 1
  THEN ReadFailed
  ELSE
    LET wf     == Val(files[path])
        flat   == IF wf.sampwidth = 1
                  THEN [j \in 1..Len(wf.raw) |-> wf.raw[j] - 128]
                  ELSE wf.raw
        frames == Len(flat) \div wf.nchannels
    IN  IF wf.raw = <<>> THEN ReadFailed
        ELSE IF check_width /\ wf.sampwidth \notin {1, 2, 4} THEN ReadFailed
        ELSE IF frames = 0 THEN ReadFailed
        ELSE IF ~trim /\ Len(flat) % wf.nchannels # 0 THEN ReadFailed
        ELSE [data |-> Some(Arr2(frames, wf.nchannels,
                                 SubSeq(flat, 1, frames * wf.nchannels))),
              sample_rate |-> wf.framerate, sampwidth |-> wf.sampwidth,
              n_channels |-> wf.nchannels]

\* _read_wav_int that takes samples of any other width as 32-bit ones
_read_wav_int_wide(files, path) == read_wav_variant(files, path, FALSE, TRUE)

\* _read_wav_int that gives up on a sample count that is no whole number
\* of frames
_read_wav_int_strict(files, path) == read_wav_variant(files, path, TRUE, FALSE)

\* raw holds whole samples; a count that is no multiple of nchannels is a
\* file cut short, of which readframes returns what is there
_read_wav_int(files, path) ==
  IF files[path] = None
  THEN ReadFailed
  ELSE IF Val(files[path]).nchannels < 1
  THEN ReadFailed
  ELSE
    LET wf          == Val(files[path])
        n_channels  == wf.nchannels
        sampwidth   == wf.sampwidth
        sample_rate == wf.framerate
        raw         == wf.raw
        flat        == IF sampwidth = 1
                       THEN [j \in 1..Len(raw) |-> raw[j] - 128]
                       ELSE raw
        frames      == Len(flat) \div n_channels
    IN  IF raw = <<>> THEN ReadFailed
        ELSE IF sampwidth \notin {1, 2, 4} THEN ReadFailed
        ELSE IF Len(flat) % n_channels = 0
        THEN [data |-> Some(Arr2(frames, n_channels, flat)),
              sample_rate |-> sample_rate, sampwidth |-> sampwidth,
              n_channels |-> n_channels]
        ELSE IF frames = 0 THEN ReadFailed
        ELSE [data |-> Some(Arr2(frames, n_channels,
                                 SubSeq(flat, 1, frames * n_channels))),
              sample_rate |-> sample_rate, sampwidth |-> sampwidth,
              n_channels |-> n_channels]

clip(v, lo, hi) == IF v < lo THEN lo ELSE IF v > hi THEN hi ELSE v

\* to_disk that writes 8-bit samples without shifting them back
to_disk_signed(flat, sampwidth) ==
  CASE sampwidth = 1 -> [j \in 1..Len(flat) |-> astype_uint8(clip(flat[j], 0, 255))]
    [] sampwidth = 2 -> [j \in 1..Len(flat) |-> astype_int16(clip(flat[j], -32768, 32767))]
    [] OTHER -> [j \in 1..Len(flat) |-> astype_int32(flat[j])]

\* internal samples to the on-disk PCM values of _write_wav_int; 1-byte
\* audio is held in int16 arrays (as _read_wav_int and _apply_mask_core
\* make them), so flat + 128 is 16-bit arithmetic
to_disk(flat, sampwidth) ==
  CASE sampwidth = 1 -> [j \in 1..Len(flat) |->
                           astype_uint8(clip(add_int16(flat[j], 128), 0, 255))]
    [] sampwidth = 2 -> [j \in 1..Len(flat) |-> astype_int16(clip(flat[j], -32768, 32767))]
    [] OTHER -> [j \in 1..Len(flat) |-> astype_int32(flat[j])]

\* the files afterwards and the exception raised; wave.open(path, "wb")
\* creates or empties the file before the header setters check their values
_write_wav_int(files, path, data0, sample_rate, sampwidth, n_channels) ==
  IF ndim(data0) # 2 /\ ~can_reshape_cols(data0, n_channels)
  THEN [files |-> files, raised |-> "ValueError"]
  ELSE IF sampwidth \notin {1, 2, 4}
  THEN [files |-> files, raised |-> "ValueError"]
  ELSE IF n_channels < 1 \/ sample_rate <= 0
  THEN [files |-> [files EXCEPT ![path] = Some(Unparseable)],
        raised |-> "wave.Error"]
  ELSE [files |-> [files EXCEPT ![path] =
                     Some(Wav(n_channels, sampwidth, sample_rate,
                              to_disk(data0.flat, sampwidth)))],
        raised |-> ""]

FileResult(s, files, raised, wrote) ==
  [self |-> s, files |-> files, raised |-> raised, wrote |-> wrote]

\* scramble_file that writes the samples as they were read
scramble_file_unmasked(s, files, input_path, output_path) ==
  LET rd == _read_wav_int(files, input_path)
  IN  IF rd.data = None
      THEN FileResult(s, files, "", FALSE)
      ELSE
        LET rng       == default_rng(s.seed)
            scrambled == _apply_mask_core(Val(rd.data), rd.sampwidth,
                                          rd.n_channels, rng)
        IN  IF scrambled.raised # ""
            THEN FileResult(s, files, scrambled.raised, FALSE)
            ELSE
              LET wr == _write_wav_int(files, output_path, Val(rd.data),
                                       rd.sample_rate, rd.sampwidth,
                                       rd.n_channels)
              IN  FileResult(s, wr.files, wr.raised, wr.raised = "")

\* scramble_file that keeps its generator in self._stream_rng
scramble_file_shared(s, files, input_path, output_path) ==
  LET rd == _read_wav_int(files, input_path)
  IN  IF rd.data = None
      THEN FileResult(s, files, "", FALSE)
      ELSE
        LET rng       == default_rng(s.seed)
            scrambled == _apply_mask_core(Val(rd.data), rd.sampwidth,
                                          rd.n_channels, rng)
            s2        == [s EXCEPT !._stream_rng = Some(scrambled.rng)]
        IN  IF scrambled.raised # ""
            THEN FileResult(s2, files, scrambled.raised, FALSE)
            ELSE
              LET wr == _write_wav_int(files, output_path, Val(scrambled.ret),
                                       rd.sample_rate, rd.sampwidth,
                                       rd.n_channels)
              IN  FileResult(s2, wr.files, wr.raised, wr.raised = "")

\* scramble_file that writes its output as one channel
scramble_file_mono(s, files, input_path, output_path) ==
  LET rd == _read_wav_int(files, input_path)
  IN  IF rd.data = None
      THEN FileResult(s, files, "", FALSE)
      ELSE
        LET rng       == default_rng(s.seed)
            scrambled == _apply_mask_core(Val(rd.data), rd.sampwidth,
                                          rd.n_channels, rng)
        IN  IF scrambled.raised # ""
            THEN FileResult(s, files, scrambled.raised, FALSE)
            ELSE
              LET wr == _write_wav_int(files, output_path, Val(scrambled.ret),
                                       rd.sample_rate, rd.sampwidth, 1)
              IN  FileResult(s, wr.files, wr.raised, wr.raised = "")

scramble_file(s, files, input_path, output_path) ==
  LET rd == _read_wav_int(files, input_path)
  IN  IF rd.data = None
      THEN FileResult(s, files, "", FALSE)
      ELSE
        LET rng       == default_rng(s.seed)
            scrambled == _apply_mask_core(Val(rd.data), rd.sampwidth,
                                          rd.n_channels, rng)
        IN  IF scrambled.raised # ""
            THEN FileResult(s, files, scrambled.raised, FALSE)
            ELSE
              LET wr == _write_wav_int(files, output_path, Val(scrambled.ret),
                                       rd.sample_rate, rd.sampwidth,
                                       rd.n_channels)
              IN  FileResult(s, wr.files, wr.raised, wr.raised = "")

unscramble_file(s, files, input_path, output_path) ==
  LET rd == _read_wav_int(files, input_path)
  IN  IF rd.data = None
      THEN FileResult(s, files, "", FALSE)
      ELSE
        LET rng       == default_rng(s.seed)
            unscrambled == _apply_mask_core(Val(rd.data), rd.sampwidth,
                                          rd.n_channels, rng)
        IN  IF unscrambled.raised # ""
            THEN FileResult(s, files, unscrambled.raised, FALSE)
            ELSE
              LET wr == _write_wav_int(files, output_path, Val(unscrambled.ret),
                                       rd.sample_rate, rd.sampwidth,
                                       rd.n_channels)
              IN  FileResult(s, wr.files, wr.raised, wr.raised = "")

----------------------------------------------------------------------------
(* Inputs *)

Widths   == {1, 2, 3, 4}
Channels == 1..MaxCh

\* sample values of the internal domain of a width, extremes first
Domain(sampwidth) ==
  CASE sampwidth = 1 -> <<-128, 127, 0, -1>>
    [] sampwidth = 2 -> <<-32768, 32767, 100, -200>>
    [] sampwidth = 4 -> <<INT32_MIN, INT32_MAX, 100, -200>>
    [] OTHER -> <<100, -200, 32000, 5>>

\* the audio a caller streams: sample i of the source buffer of a width
Source(sampwidth, i) == Domain(sampwidth)[((i - 1) % 4) + 1]

\* the next n samples of the source after the first `off`
Slice(sampwidth, off, n) == [j \in 1..n |-> Source(sampwidth, off + j)]

\* a slice as a flat chunk or as a pre-shaped (frames, k) chunk
Shaped(q) ==
  { Arr1(q) } \cup { Arr2(Len(q) \div k, k, q) : k \in { c \in Channels : Len(q) % c = 0 } }

----------------------------------------------------------------------------
(* The streaming session: calls on one instance *)

NoCall == [op |-> "none", chunk |-> None, raised |-> "", ret |-> None,
           before |-> None]

NoHist == [inited |-> FALSE, prior |-> FALSE, log |-> <<>>]

\* samples the session has masked so far (inputs of the calls that returned)
Fed(log) ==
  LET RECURSIVE F(_)
      F(i) == IF i = 0 THEN <<>>
              ELSE IF log[i].raised = "" THEN F(i - 1) \o Val(log[i].chunk).flat
              ELSE F(i - 1)
  IN  F(Len(log))

\* what the session has returned so far, concatenated
Got(log) ==
  LET RECURSIVE G(_)
      G(i) == IF i = 0 THEN <<>>
              ELSE IF log[i].raised = "" THEN G(i - 1) \o Val(log[i].ret).flat
              ELSE G(i - 1)
  IN  G(Len(log))

Initialized(s) ==
  s._stream_rng # None /\ s._stream_sampwidth # None /\ s._stream_n_channels # None

\* the keystream values a chunk call requests, when it gets as far as the draw
DrawSize(s, chunk) ==
  IF ~Initialized(s) THEN 0
  ELSE IF ndim(chunk) = 1
       THEN IF Len(chunk.flat) % Val(s._stream_n_channels) # 0 THEN 0
            ELSE Len(chunk.flat)
       ELSE chunk.shape[1] * Val(s._stream_n_channels)

\* the modelled part of the bit-generator stream covers the call
InStream(s, chunk) ==
  Initialized(s) =>
    Val(s._stream_rng).pos
      + WordsTaken(Val(s._stream_sampwidth), DrawSize(s, chunk)) <= MaxWords

\* the chunks a caller can pass next: the next samples of its source buffer
ChunkInputs(s) ==
  LET sampwidth == IF s._stream_sampwidth = None THEN 0
                   ELSE Val(s._stream_sampwidth)
      off       == Len(Fed(hist.log))
  IN  UNION { Shaped(Slice(sampwidth, off, n)) : n \in 0..(MaxSamples - off) }

Call(op, chunk, r) ==
  [op |-> op, chunk |-> Some(chunk), raised |-> r.raised, ret |-> r.ret,
   before |-> Some(self)]

InitStream(sampwidth, n_channels) ==
  /\ self' = init_stream(self, sampwidth, n_channels)
  /\ last' = [op |-> "init_stream", chunk |-> None, raised |-> "", ret |-> None,
              before |-> Some(self)]
  /\ hist' = [inited |-> TRUE,
              prior  |-> self._stream_rng # None /\ Val(self._stream_rng).pos > 0,
              log    |-> <<>>]
  /\ rx' = [rx EXCEPT !.done = 0, !.keys = <<>>]
  /\ UNCHANGED <<pcg64, core, fs, win>>

ChunkCall(op, r, chunk) ==
  /\ self' = r.self
  /\ last' = Call(op, chunk, r)
  /\ hist' = IF hist.inited
             THEN [hist EXCEPT !.log = Append(@, [chunk  |-> Some(chunk),
                                                  raised |-> r.raised,
                                                  ret    |-> r.ret,
                                                  rng    |-> r.self._stream_rng])]
             ELSE hist
  /\ UNCHANGED <<pcg64, core, fs, rx, win>>

ScrambleChunk(chunk) ==
  /\ Len(hist.log) < MaxCalls
  /\ InStream(self, chunk)
  /\ ChunkCall("scramble_chunk", scramble_chunk(self, chunk), chunk)

UnscrambleChunk(chunk) ==
  /\ Len(hist.log) < MaxCalls
  /\ InStream(self, chunk)
  /\ ChunkCall("unscramble_chunk", unscramble_chunk(self, chunk), chunk)

NoCore == [calls |-> 0]

\* the second instance before it has replayed anything
NoRx(seed) == [inst |-> __init__(20, seed), done |-> 0, keys |-> <<>>]

\* tempfile.gettempdir() joined with the two file names
scrambled_temp_path   == "audio_scrambler_scrambled.wav"
unscrambled_temp_path == "audio_scrambler_unscrambled.wav"

\* MainWindow.__init__: nothing opened, both players stopped; its scrambler
\* is AudioScrambler(block_ms=50, seed=12345)
MainWindow ==
  [current_file_in |-> None, is_paused_in |-> FALSE, playback_state_in |-> "stopped",
   current_file_out |-> None, is_paused_out |-> FALSE, playback_state_out |-> "stopped",
   is_out_scrambled |-> FALSE]

Paths == {"in.wav", "out.wav"}

NoFiles == [p \in Paths |-> None]

----------------------------------------------------------------------------
(* Direct calls of _apply_mask_core, each with a generator fresh from the seed *)

SeqsUpTo(S, n) == UNION { [1..m -> S] : m \in 0..n }

\* the (frames, channels) matrices over the sample values of a width
Matrices(sampwidth) ==
  UNION { { Arr2(Len(q) \div k, k, q) :
              q \in { r \in SeqsUpTo({Domain(sampwidth)[i] : i \in 1..4}, MaxSamples) :
                        Len(r) % k = 0 } } : k \in Channels }

ApplyMaskCore ==
  /\ core.calls \in {1, 2}
  /\ LET r == _apply_mask_core(core.data, core.sampwidth, core.n_channels,
                               default_rng(self.seed))
     IN  /\ r.raised = ""
         /\ core' = [core EXCEPT !.calls = @ + 1, !.data = Val(r.ret)]
  /\ UNCHANGED <<pcg64, self, last, hist, fs, rx, win>>

InitCore ==
  /\ \E seed \in Seeds :
       /\ self = __init__(50, seed)
       /\ pcg64 \in [{seed} -> [0..(MaxWords - 1) -> Words]]
  /\ last = NoCall
  /\ hist = NoHist
  /\ fs = NoFiles
  /\ rx = NoRx(self.seed)
  /\ win = MainWindow
  /\ \E sampwidth \in {1, 2, 4} :
       \E M \in Matrices(sampwidth) :
         /\ WordsTaken(sampwidth, Len(M.flat)) <= MaxWords
         /\ core = [calls |-> 1, sampwidth |-> sampwidth,
                    n_channels |-> M.shape[2], orig |-> M, data |-> M]

NextCore == ApplyMaskCore

SpecCore == InitCore /\ [][NextCore]_vars

\* C1: for every supported width, every seed and every matrix M in the
\* width's internal domain, _apply_mask_core applied to M with a generator
\* fresh from the seed, and again to the result with another generator
\* fresh from the same seed, returns exactly M.
C1_RoundTrip == core.calls = 3 => core.data = core.orig

C1_Witness ==
  /\ core.calls = 3
  /\ core.sampwidth = 4
  /\ core.orig.flat = <<INT32_MIN, INT32_MAX>>
  /\ core.data = core.orig

Init ==
  /\ \E seed \in Seeds :
       /\ self = __init__(50, seed)
       /\ pcg64 \in [{seed} -> [0..(MaxWords - 1) -> Words]]
  /\ last = NoCall
  /\ hist = NoHist
  /\ core = NoCore
  /\ fs = NoFiles
  /\ rx = NoRx(self.seed)
  /\ win = MainWindow

Next ==
  \/ \E sampwidth \in Widths, n_channels \in Channels :
       InitStream(sampwidth, n_channels)
  \/ \E chunk \in ChunkInputs(self) : ScrambleChunk(chunk)
  \/ \E chunk \in ChunkInputs(self) : UnscrambleChunk(chunk)

Spec == Init /\ [][Next]_vars

----------------------------------------------------------------------------
(* File-level calls on one instance *)

\* the source buffer as stored in a WAV file of the width
OnDisk(sampwidth, n) ==
  [j \in 1..n |-> IF sampwidth = 1 THEN Source(sampwidth, j) + 128
                  ELSE Source(sampwidth, j)]

\* sample rates of a header: a usual one, and 0, which the reader accepts
Rates == {8000, 0}

InputFiles ==
  { Unparseable } \cup
  UNION { { Wav(n_channels, sampwidth, framerate, OnDisk(sampwidth, n)) :
              n_channels \in Channels, framerate \in Rates,
              n \in { m \in 0..MaxSamples : WordsTaken(sampwidth, m) <= MaxWords } } :
          sampwidth \in Widths }

FileCall(op, r, input_path, output_path) ==
  /\ self' = r.self
  /\ fs' = r.files
  /\ last' = [op |-> op, chunk |-> None, raised |-> r.raised, ret |-> None,
              before |-> Some(self), files |-> fs, wrote |-> r.wrote,
              input_path |-> input_path, output_path |-> output_path]
  /\ UNCHANGED <<pcg64, hist, core, rx, win>>

ScrambleFile(input_path, output_path) ==
  FileCall("scramble_file", scramble_file(self, fs, input_path, output_path),
           input_path, output_path)

UnscrambleFile(input_path, output_path) ==
  FileCall("unscramble_file", unscramble_file(self, fs, input_path, output_path),
           input_path, output_path)

InitFile ==
  /\ \E seed \in Seeds :
       /\ self = __init__(50, seed)
       /\ pcg64 \in [{seed} -> [0..(MaxWords - 1) -> Words]]
  /\ last = NoCall
  /\ hist = NoHist
  /\ core = NoCore
  /\ \E f \in {None} \cup { Some(w) : w \in InputFiles } :
       fs = [NoFiles EXCEPT !["in.wav"] = f]
  /\ rx = NoRx(self.seed)
  /\ win = MainWindow

NextFile ==
  \/ \E input_path \in Paths, output_path \in Paths :
       ScrambleFile(input_path, output_path)
  \/ \E input_path \in Paths, output_path \in Paths :
       UnscrambleFile(input_path, output_path)

SpecFile == InitFile /\ [][NextFile]_vars

----------------------------------------------------------------------------
(* Direct calls of the WAV helpers: decode a container, encode a matrix *)

MaxCodecCalls == 2   \* calls of _read_wav_int / _write_wav_int in a row

\* values beyond the internal domain of a width, next to its extremes
Wide(sampwidth) ==
  CASE sampwidth = 1 -> <<200, -300, 32767, -32768>>
    [] sampwidth = 2 -> <<40000, -40000, -32769, 32768>>
    [] OTHER -> Domain(sampwidth)

\* the sample sequences a caller hands to the encoder
EncodeSeqs(sampwidth) ==
  UNION { { Slice(sampwidth, 0, n),
            [j \in 1..n |-> Wide(sampwidth)[((j - 1) % 4) + 1]] } :
          n \in 0..MaxSamples }

\* the arguments of a first _write_wav_int call
DrawnEncodeInputs ==
  UNION { UNION { { [data |-> M, sample_rate |-> framerate,
                     sampwidth |-> sampwidth, n_channels |-> n_channels] :
                      framerate \in Rates,
                      n_channels \in IF ndim(M) = 2 THEN {M.shape[2]} ELSE Channels } :
                  M \in UNION { Shaped(q) : q \in EncodeSeqs(sampwidth) } } :
          sampwidth \in Widths }

NoCodecCall ==
  [op |-> "none", calls |-> 0, path |-> "", files |-> NoFiles, data |-> None,
   sample_rate |-> 0, sampwidth |-> 0, n_channels |-> 0, rd |-> ReadFailed,
   raised |-> "", prev |-> None]

\* what the encoder is given: drawn arguments in a first call, and after a
\* successful _read_wav_int what that call returned
EncodeInputs ==
  IF last.calls = 0 THEN DrawnEncodeInputs
  ELSE IF last.op = "_read_wav_int" /\ last.rd.data # None
  THEN { [data |-> Val(last.rd.data), sample_rate |-> last.rd.sample_rate,
          sampwidth |-> last.rd.sampwidth, n_channels |-> last.rd.n_channels] }
  ELSE {}

ReadWav(path) ==
  /\ last.calls < MaxCodecCalls
  /\ last' = [op |-> "_read_wav_int", calls |-> last.calls + 1, path |-> path,
              files |-> fs, data |-> None, sample_rate |-> 0, sampwidth |-> 0,
              n_channels |-> 0, rd |-> _read_wav_int(fs, path), raised |-> "",
              prev |-> Some([last EXCEPT !.prev = None])]
  /\ UNCHANGED <<pcg64, self, hist, core, fs, rx, win>>

WriteWav(path, a) ==
  /\ last.calls < MaxCodecCalls
  /\ LET wr == _write_wav_int(fs, path, a.data, a.sample_rate, a.sampwidth,
                              a.n_channels)
     IN  /\ fs' = wr.files
         /\ last' = [op |-> "_write_wav_int", calls |-> last.calls + 1,
                     path |-> path, files |-> fs, data |-> Some(a.data),
                     sample_rate |-> a.sample_rate, sampwidth |-> a.sampwidth,
                     n_channels |-> a.n_channels, rd |-> ReadFailed,
                     raised |-> wr.raised,
                     prev |-> Some([last EXCEPT !.prev = None])]
  /\ UNCHANGED <<pcg64, self, hist, core, rx, win>>

InitCodec ==
  /\ self = __init__(50, DefaultSeed)
  /\ pcg64 = [seed \in {DefaultSeed} |-> [i \in 0..(MaxWords - 1) |-> <<0, 0>>]]
  /\ last = NoCodecCall
  /\ hist = NoHist
  /\ core = NoCore
  /\ \E f \in {None} \cup { Some(w) : w \in InputFiles } :
       fs = [NoFiles EXCEPT !["in.wav"] = f]
  /\ rx = NoRx(self.seed)
  /\ win = MainWindow

NextCodec ==
  \/ \E path \in Paths : ReadWav(path)
  \/ \E path \in Paths : \E a \in EncodeInputs : WriteWav(path, a)

SpecCodec == InitCodec /\ [][NextCodec]_vars

----------------------------------------------------------------------------
(* File-level calls between the calls of a streaming session *)

\* the audio the instance is given as a file, which it also streams: one
\* frame of every supported format
MixedFiles ==
  UNION { { Wav(n_channels, sampwidth, 8000, OnDisk(sampwidth, n_channels)) :
              n_channels \in { c \in Channels : WordsTaken(sampwidth, c) <= MaxWords } } :
          sampwidth \in {1, 2, 4} }

InitMixed ==
  /\ self = __init__(50, DefaultSeed)
  /\ pcg64 \in [{DefaultSeed} -> [0..(MaxWords - 1) -> Words]]
  /\ last = NoCall
  /\ hist = NoHist
  /\ core = NoCore
  /\ \E w \in MixedFiles : fs = [NoFiles EXCEPT !["in.wav"] = Some(w)]
  /\ rx = NoRx(self.seed)
  /\ win = MainWindow

\* init_stream for the format of the audio
InitStreamOfFile ==
  InitStream(Val(fs["in.wav"]).sampwidth, Val(fs["in.wav"]).nchannels)

NextMixed ==
  \/ InitStreamOfFile
  \/ \E chunk \in ChunkInputs(self) : ScrambleChunk(chunk)
  \/ \E chunk \in ChunkInputs(self) : UnscrambleChunk(chunk)
  \/ ScrambleFile("in.wav", "out.wav")
  \/ UnscrambleFile("in.wav", "out.wav")

SpecMixed == InitMixed /\ [][NextMixed]_vars

----------------------------------------------------------------------------
(* Two instances with the same seed: `self` runs a streaming session, `rx`  *)
(* makes the same calls, unscrambling what `self` returned                  *)

\* the keystream values a chunk call drew, recovered from what it was
\* given and what it returned
DrawnKeys(sampwidth, chunk, ret) ==
  CASE sampwidth = 1 ->
         bitwise_xor("uint8", [j \in 1..Len(chunk.flat) |-> chunk.flat[j] + 128],
                     [j \in 1..Len(ret.flat) |-> ret.flat[j] + 128])
    [] sampwidth = 2 -> bitwise_xor("int16", chunk.flat, ret.flat)
    [] sampwidth = 4 -> bitwise_xor("int32", chunk.flat, ret.flat)
    [] OTHER -> <<>>

\* the keystream values of one logged call (none when it raised)
CallKeys(sampwidth, e) ==
  IF e.raised = "" THEN DrawnKeys(sampwidth, Val(e.chunk), Val(e.ret)) ELSE <<>>

\* rx calls init_stream with the arguments self was given
RxInitStream ==
  /\ hist.inited
  /\ rx.done = 0
  /\ rx' = [rx EXCEPT !.inst = init_stream(@, Val(self._stream_sampwidth),
                                           Val(self._stream_n_channels)),
                      !.done = 1]
  /\ UNCHANGED <<pcg64, self, last, hist, core, fs, win>>

\* rx makes the next call of the session: it unscrambles what self
\* returned (or is given the chunk self was given, when self's call raised)
RxUnscrambleChunk ==
  /\ rx.done >= 1
  /\ rx.done <= Len(hist.log)
  /\ LET e     == hist.log[rx.done]
         chunk == IF e.raised = "" THEN Val(e.ret) ELSE Val(e.chunk)
         r     == unscramble_chunk(rx.inst, chunk)
     IN  rx' = [inst |-> r.self,
                done |-> rx.done + 1,
                keys |-> Append(rx.keys,
                                CallKeys(Val(self._stream_sampwidth),
                                         [chunk |-> Some(chunk),
                                          raised |-> r.raised,
                                          ret |-> r.ret]))]
  /\ UNCHANGED <<pcg64, self, last, hist, core, fs, win>>

NextPair ==
  \/ \E sampwidth \in Widths, n_channels \in Channels :
       InitStream(sampwidth, n_channels)
  \/ \E chunk \in ChunkInputs(self) : rx.done = Len(hist.log) + 1 /\ ScrambleChunk(chunk)
  \/ RxInitStream
  \/ RxUnscrambleChunk

SpecPair == Init /\ [][NextPair]_vars

\* C4: two instances built from the same seed and driven by the same
\* sequence of calls (same widths, same per-call sample counts) draw the
\* same keystream values at every step and leave their generators in the
\* same state, whatever each instance did before.
C4_KeystreamDeterminism ==
  rx.done >= 1 =>
    /\ \A k \in 1..(rx.done - 1) :
         rx.keys[k] = CallKeys(Val(self._stream_sampwidth), hist.log[k])
    /\ rx.inst._stream_rng =
         IF rx.done = 1 THEN Some(default_rng(self.seed))
         ELSE hist.log[rx.done - 1].rng

C4_Witness ==
  /\ hist.prior
  /\ rx.done = 3
  /\ Val(self._stream_sampwidth) = 2
  /\ Len(rx.keys[1]) = 1
  /\ Len(rx.keys[2]) = 2
  /\ rx.inst._stream_rng = Some([seed |-> self.seed, pos |-> 2])

----------------------------------------------------------------------------
(* Properties of the streaming session *)

ChunkOps == {"scramble_chunk", "unscramble_chunk"}

\* a scrambler as it is right after construction with the seed of `self`
Fresh == __init__(50, self.seed)

\* every chunk of the log was whole frames of the stream's channel count
FrameAligned(log, n_channels) ==
  \A i \in 1..Len(log) :
    /\ log[i].raised = ""
    /\ ndim(Val(log[i].chunk)) = 2 => Val(log[i].chunk).shape[2] = n_channels

\* rng.integers of the width's branch of _apply_mask_core
Keystream(rng, sampwidth, n) ==
  CASE sampwidth = 1 -> integers_uint8(rng, n)
    [] sampwidth = 2 -> integers_int16(rng, n)
    [] OTHER -> integers_int32(rng, n)

\* C2: after init_stream, the concatenated outputs of scramble_chunk on
\* frame-aligned sub-chunks equal the output of one scramble_chunk on the
\* whole buffer, wherever the chunk boundaries fall.
C2_ChunkingInvariance ==
  ( /\ hist.inited
    /\ Val(self._stream_sampwidth) \in {1, 2, 4}
    /\ FrameAligned(hist.log, Val(self._stream_n_channels)) )
  => LET B     == Fed(hist.log)
         whole == scramble_chunk(
                    init_stream(Fresh, Val(self._stream_sampwidth),
                                Val(self._stream_n_channels)),
                    Arr1(B))
     IN  whole.raised = "" /\ Got(hist.log) = Val(whole.ret).flat

\* C5: a chunk call on a scrambler on which init_stream was never called
\* raises the not-initialized error, returns nothing and leaves the
\* instance Uninitialized.
C5_NotInitialized ==
  /\ ~hist.inited =>
       /\ self._stream_rng = None
       /\ self._stream_sampwidth = None
       /\ self._stream_n_channels = None
  /\ (last.op \in ChunkOps /\ ~hist.inited) =>
       /\ last.raised = "RuntimeError"
       /\ last.ret = None

C5_Witness ==
  /\ last.op = "unscramble_chunk"
  /\ ~hist.inited
  /\ Len(Val(last.chunk).flat) > 0
  /\ last.raised = "RuntimeError"

\* C6: in the Initialized state a flat chunk whose length is not divisible
\* by the channel count is rejected with the misaligned-chunk error and no
\* masked data is returned.
C6_Misaligned ==
  ( /\ last.op \in ChunkOps
    /\ Initialized(Val(last.before))
    /\ ndim(Val(last.chunk)) = 1
    /\ Len(Val(last.chunk).flat) % Val(Val(last.before)._stream_n_channels) # 0 )
  => last.raised = "ValueError" /\ last.ret = None

C6_Witness ==
  /\ last.op = "scramble_chunk"
  /\ Initialized(Val(last.before))
  /\ Val(Val(last.before)._stream_n_channels) = 2
  /\ Val(last.chunk).shape = <<3>>
  /\ last.raised = "ValueError"

\* a flat chunk whose length is no multiple of the channel count
Misaligned(chunk, n_channels) ==
  ndim(chunk) = 1 /\ Len(chunk.flat) % n_channels # 0

\* what a brand-new scrambler with the same seed returns, call by call, for
\* the chunks of the calls of the log that returned
ReplayReturned(log, sampwidth, n_channels) ==
  LET RECURSIVE R(_, _)
      R(i, s) ==
        IF i > Len(log) THEN <<>>
        ELSE IF log[i].raised # "" THEN R(i + 1, s)
        ELSE LET r == scramble_chunk(s, Val(log[i].chunk))
             IN  <<r.ret>> \o R(i + 1, r.self)
  IN  R(1, init_stream(Fresh, sampwidth, n_channels))

Returned(log) ==
  LET RECURSIVE T(_)
      T(i) == IF i > Len(log) THEN <<>>
              ELSE IF log[i].raised # "" THEN T(i + 1)
              ELSE <<log[i].ret>> \o T(i + 1)
  IN  T(1)

\* C7: a chunk call that fails on a misaligned flat chunk does not advance
\* the keystream: the instance is as it was before the call, and in a
\* session whose failed calls are of that kind the successful calls return
\* what they return in the same session without the failed calls.
C7_FailedCallKeepsPosition ==
  /\ ( /\ last.op \in ChunkOps
       /\ Initialized(Val(last.before))
       /\ Misaligned(Val(last.chunk), Val(Val(last.before)._stream_n_channels)) )
     => last.raised # "" /\ self = Val(last.before)
  /\ ( /\ hist.inited
       /\ \A i \in 1..Len(hist.log) :
            hist.log[i].raised # "" =>
              Misaligned(Val(hist.log[i].chunk), Val(self._stream_n_channels)) )
     => Returned(hist.log)
          = ReplayReturned(hist.log, Val(self._stream_sampwidth),
                           Val(self._stream_n_channels))

C7_Witness ==
  /\ hist.inited
  /\ Len(hist.log) = 2
  /\ Val(self._stream_sampwidth) = 2
  /\ Val(self._stream_n_channels) = 2
  /\ hist.log[1].raised = "ValueError"
  /\ Misaligned(Val(hist.log[1].chunk), 2)
  /\ hist.log[2].raised = ""
  /\ Len(Val(hist.log[2].ret).flat) = 2
  /\ Val(self._stream_rng).pos = 1

\* C8: when the width reaching the masking core is not 1, 2 or 4 the call
\* fails; it never returns data as if it had been scrambled.
C8_UnsupportedWidthFails ==
  ( /\ last.op \in ChunkOps
    /\ Initialized(Val(last.before))
    /\ Val(Val(last.before)._stream_sampwidth) \notin {1, 2, 4}
    /\ Len(Val(last.chunk).flat) > 0
    /\ ndim(Val(last.chunk)) = 2 )
  => last.raised # "" /\ last.ret = None

\* C9: init_stream is accepted in every state and puts the keystream back
\* at position 0: the first chunk call after it has the outcome the same
\* call has on a brand-new scrambler with the same seed after its first
\* init_stream.
C9_ReinitResets ==
  /\ last.op = "init_stream" =>
       /\ last.raised = ""
       /\ Initialized(self)
       /\ self._stream_rng = Some(default_rng(self.seed))
  /\ (last.op \in ChunkOps /\ hist.inited /\ Len(hist.log) = 1) =>
       LET new == scramble_chunk(
                    init_stream(Fresh, Val(self._stream_sampwidth),
                                Val(self._stream_n_channels)),
                    Val(last.chunk))
       IN  /\ last.raised = new.raised
           /\ last.ret = new.ret
           /\ self = new.self

C9_Witness ==
  /\ last.op \in ChunkOps
  /\ hist.prior
  /\ Len(hist.log) = 1
  /\ last.raised = ""
  /\ Val(self._stream_sampwidth) = 1
  /\ Len(Val(last.ret).flat) > 0

\* C10: a chunk call never replaces the generator, and after successful
\* chunk calls the generator stands at keystream position `total`, the
\* number of samples masked since init_stream: the next value it delivers
\* is value total + 1 of the keystream of a generator fresh from the seed.
C10_PositionIsSampleCount ==
  /\ (last.op \in ChunkOps /\ Initialized(Val(last.before))) =>
       /\ Initialized(self)
       /\ Val(self._stream_rng).seed = Val(Val(last.before)._stream_rng).seed
       /\ Val(self._stream_rng).pos >= Val(Val(last.before)._stream_rng).pos
  /\ ( /\ hist.inited
       /\ Val(self._stream_sampwidth) \in {1, 2, 4}
       /\ FrameAligned(hist.log, Val(self._stream_n_channels))
       /\ Val(self._stream_rng).pos < MaxWords
       /\ WordsTaken(Val(self._stream_sampwidth), Len(Fed(hist.log)) + 1)
            <= MaxWords )
     => LET sampwidth == Val(self._stream_sampwidth)
            total     == Len(Fed(hist.log))
        IN  Keystream(Val(self._stream_rng), sampwidth, 1)[1]
              = Keystream(default_rng(self.seed), sampwidth, total + 1)[total + 1]


----------------------------------------------------------------------------
(* Properties of the file-level calls *)

\* C3: the samples scramble_file writes for decoded data D of format
\* (width, channels) are the samples init_stream(width, channels) followed
\* by one scramble_chunk(D) returns on a scrambler with the same seed.
C3_FileStreamEquivalence ==
  (last.op = "scramble_file" /\ last.wrote) =>
    LET rd     == _read_wav_int(last.files, last.input_path)
        stream == scramble_chunk(init_stream(Fresh, rd.sampwidth, rd.n_channels),
                                 Val(rd.data))
    IN  /\ stream.raised = ""
        /\ Val(fs[last.output_path]).raw
             = to_disk(Val(stream.ret).flat, rd.sampwidth)

C3_Witness ==
  /\ last.op = "scramble_file"
  /\ last.wrote
  /\ last.input_path = "in.wav"
  /\ last.output_path = "out.wav"
  /\ Val(fs["out.wav"]).sampwidth = 2
  /\ Val(fs["out.wav"]).nchannels = 2
  /\ Len(Val(fs["out.wav"]).raw) = 4
  /\ Val(fs["out.wav"]).raw # Val(fs["in.wav"]).raw

FileOps == {"scramble_file", "unscramble_file"}

\* C12: a file-level call that writes its output writes it with the sample
\* rate, the sample width and the channel count of the input's header, and
\* with as many frames as were decoded from the input.
C12_SameFormat ==
  (last.op \in FileOps /\ last.wrote) =>
    LET inp == Val(last.files[last.input_path])
        out == Val(fs[last.output_path])
    IN  /\ out.framerate = inp.framerate
        /\ out.sampwidth = inp.sampwidth
        /\ out.nchannels = inp.nchannels
        /\ Len(out.raw) = (Len(inp.raw) \div inp.nchannels) * inp.nchannels

C12_Witness ==
  /\ last.op = "unscramble_file"
  /\ last.wrote
  /\ last.input_path = "in.wav"
  /\ last.output_path = "out.wav"
  /\ Val(fs["in.wav"]).nchannels = 2
  /\ Val(fs["in.wav"]).sampwidth = 1
  /\ Len(Val(fs["in.wav"]).raw) = 3
  /\ Val(fs["out.wav"]).nchannels = 2
  /\ Len(Val(fs["out.wav"]).raw) = 2

\* C13: a file-level call whose input cannot be read or decoded ends in an
\* error its caller can observe.
C13_FailureReported ==
  ( /\ last.op \in FileOps
    /\ _read_wav_int(last.files, last.input_path).data = None )
  => last.raised # ""

\* C14: a file-level call that does not complete leaves the file at the
\* output path as it was (absent if it was absent).
C14_AtomicOutput ==
  (last.op \in FileOps /\ ~last.wrote) =>
    fs[last.output_path] = last.files[last.output_path]

----------------------------------------------------------------------------
(* Properties of file-level and streaming calls on one instance *)

\* the outcome of the last call, in the form the operators return it
ChunkOutcome == Result(self, last.raised, last.ret)
FileOutcome  == FileResult(self, fs, last.raised, last.wrote)

\* C11: from the same instance state and the same input, scramble_chunk
\* and unscramble_chunk return the same buffer (or raise the same error)
\* and leave the same stream state, and scramble_file and unscramble_file
\* leave the same files: what one of them did is what the other does.
C11_SameOperation ==
  /\ last.op = "scramble_chunk" =>
       ChunkOutcome = unscramble_chunk(Val(last.before), Val(last.chunk))
  /\ last.op = "unscramble_chunk" =>
       ChunkOutcome = scramble_chunk(Val(last.before), Val(last.chunk))
  /\ last.op = "scramble_file" =>
       FileOutcome = unscramble_file(Val(last.before), last.files,
                                     last.input_path, last.output_path)
  /\ last.op = "unscramble_file" =>
       FileOutcome = scramble_file(Val(last.before), last.files,
                                   last.input_path, last.output_path)

C11_Witness ==
  /\ last.op = "scramble_chunk"
  /\ last.raised = ""
  /\ Len(Val(last.ret).flat) = 2
  /\ Val(last.ret) # Val(last.chunk)
  /\ Val(self._stream_rng).pos > Val(Val(last.before)._stream_rng).pos
  /\ fs["out.wav"] # None
  /\ fs["out.wav"] # fs["in.wav"]

\* the outcome of every call of the log (failed ones included) when a
\* brand-new scrambler with the same seed makes the calls after init_stream
ReplayAll(log, sampwidth, n_channels) ==
  LET RECURSIVE R(_, _)
      R(i, s) ==
        IF i > Len(log) THEN <<>>
        ELSE LET r == scramble_chunk(s, Val(log[i].chunk))
             IN  << [chunk |-> log[i].chunk, raised |-> r.raised, ret |-> r.ret,
                     rng |-> r.self._stream_rng] >> \o R(i + 1, r.self)
  IN  R(1, init_stream(Fresh, sampwidth, n_channels))

\* C20: a file-level call writes what the same call writes on a brand-new
\* scrambler with the same seed, whatever file, init_stream and chunk calls
\* came before it; it leaves the instance (generator position, width,
\* channel count) as it was, and the chunk calls of a session have the
\* outcomes they have in a session without file-level calls.
C20_FreshPerFileCall ==
  /\ last.op = "scramble_file" =>
       /\ self = Val(last.before)
       /\ LET new == scramble_file(Fresh, last.files, last.input_path,
                                   last.output_path)
          IN  fs = new.files /\ last.raised = new.raised
  /\ last.op = "unscramble_file" =>
       /\ self = Val(last.before)
       /\ LET new == unscramble_file(Fresh, last.files, last.input_path,
                                     last.output_path)
          IN  fs = new.files /\ last.raised = new.raised
  /\ hist.inited =>
       hist.log = ReplayAll(hist.log, Val(self._stream_sampwidth),
                            Val(self._stream_n_channels))

C20_Witness ==
  /\ last.op = "unscramble_file"
  /\ last.wrote
  /\ hist.prior
  /\ Len(hist.log) = 2
  /\ hist.log[1].raised = ""
  /\ Val(hist.log[1].rng).pos = 1
  /\ Val(self._stream_rng).pos = 2
  /\ fs["out.wav"] # fs["in.wav"]

\* C19: a successful chunk call on a non-empty chunk returns a buffer of
\* the shape of its input: flat of the same length for a flat input,
\* (frames, k) for a pre-shaped (frames, k) input, whatever k is.
C19_SameShape ==
  ( /\ last.op \in ChunkOps
    /\ last.raised = ""
    /\ Len(Val(last.chunk).flat) > 0 )
  => /\ last.ret # None
     /\ Val(last.ret).shape = Val(last.chunk).shape
     /\ Len(Val(last.ret).flat) = Len(Val(last.chunk).flat)

----------------------------------------------------------------------------
(* Properties of the WAV helpers *)

\* the file a _read_wav_int call was pointed at
Container == last.files[last.path]

\* sample j of a container in the internal representation
Decoded(wf, j) == IF wf.sampwidth = 1 THEN wf.raw[j] - 128 ELSE wf.raw[j]

\* C15: _read_wav_int returns the failure value, and no matrix, when the
\* file is missing or cannot be parsed, holds no sample data, or declares
\* a width other than 1, 2 or 4; a matrix comes back only for those widths.
C15_DecodeFailures ==
  last.op = "_read_wav_int" =>
    /\ ( \/ Container = None
         \/ Val(Container) = Unparseable
         \/ Val(Container).raw = <<>>
         \/ Val(Container).sampwidth \notin {1, 2, 4} )
       => last.rd = ReadFailed
    /\ last.rd.data # None =>
         /\ Container # None
         /\ Val(Container).sampwidth \in {1, 2, 4}
         /\ last.rd.sampwidth = Val(Container).sampwidth
         /\ ndim(Val(last.rd.data)) = 2

C15_Witness ==
  /\ last.op = "_read_wav_int"
  /\ Container # None
  /\ Val(Container).sampwidth = 3
  /\ Len(Val(Container).raw) = 3
  /\ Val(Container).nchannels = 1
  /\ last.rd.data = None

\* C16: for a parseable container of a supported width with count > 0
\* samples, decoding fails when count < channel_count and otherwise
\* returns the first floor(count / channel_count) * channel_count samples,
\* in order, as a (floor(count / channel_count), channel_count) matrix.
C16_TrimIncompleteFrame ==
  ( /\ last.op = "_read_wav_int"
    /\ Container # None
    /\ Val(Container).nchannels >= 1
    /\ Val(Container).sampwidth \in {1, 2, 4}
    /\ Val(Container).raw # <<>> )
  => LET wf     == Val(Container)
         count  == Len(wf.raw)
         frames == count \div wf.nchannels
     IN  IF frames = 0
         THEN last.rd.data = None
         ELSE /\ last.rd.data # None
              /\ Val(last.rd.data).shape = <<frames, wf.nchannels>>
              /\ Len(Val(last.rd.data).flat) = frames * wf.nchannels
              /\ \A j \in 1..(frames * wf.nchannels) :
                   Val(last.rd.data).flat[j] = Decoded(wf, j)

C16_Witness ==
  /\ last.op = "_read_wav_int"
  /\ Container # None
  /\ Val(Container).nchannels = 2
  /\ Val(Container).sampwidth = 1
  /\ Val(Container).raw = <<0, 255, 128>>
  /\ last.rd.data = Some(Arr2(1, 2, <<-128, 127>>))

\* C17: _write_wav_int writes value v of a 1-byte matrix as
\* clamp(v, -128, 127) + 128, of a 2-byte matrix as clamp(v, -32768, 32767)
\* and of a 4-byte matrix as v; for any other width it raises the
\* unsupported-width error and touches no file.
C17_EncodeClamps ==
  last.op = "_write_wav_int" =>
    /\ last.sampwidth \notin {1, 2, 4} =>
         last.raised = "ValueError" /\ fs = last.files
    /\ last.raised = "" =>
         LET out == Val(fs[last.path]).raw
             v   == Val(last.data).flat
         IN  /\ Len(out) = Len(v)
             /\ \A j \in 1..Len(v) :
                  CASE last.sampwidth = 1 ->
                         out[j] = clip(v[j], -128, 127) + 128 /\ out[j] \in 0..255
                    [] last.sampwidth = 2 -> out[j] = clip(v[j], -32768, 32767)
                    [] OTHER -> out[j] = v[j]

\* every value of the matrix lies in the internal domain of the width
InDomain(M, sampwidth) ==
  \A j \in 1..Len(M.flat) :
    CASE sampwidth = 1 -> M.flat[j] \in -128..127
      [] sampwidth = 2 -> M.flat[j] \in -32768..32767
      [] OTHER -> TRUE

\* the last call encoded what the call before it decoded, with its format
EncodedTheDecoded ==
  /\ last.op = "_write_wav_int"
  /\ last.prev # None
  /\ Val(last.prev).op = "_read_wav_int"
  /\ Val(last.prev).rd.data # None
  /\ last.data = Val(last.prev).rd.data
  /\ last.sample_rate = Val(last.prev).rd.sample_rate
  /\ last.sampwidth = Val(last.prev).rd.sampwidth
  /\ last.n_channels = Val(last.prev).rd.n_channels

\* the last call decoded the file the call before it encoded from a matrix
\* of a supported width
DecodedTheEncoded ==
  /\ last.op = "_read_wav_int"
  /\ last.prev # None
  /\ Val(last.prev).op = "_write_wav_int"
  /\ Val(last.prev).raised = ""
  /\ Val(last.prev).path = last.path
  /\ ndim(Val(Val(last.prev).data)) = 2
  /\ Val(last.prev).n_channels = Val(Val(last.prev).data).shape[2]
  /\ InDomain(Val(Val(last.prev).data), Val(last.prev).sampwidth)

\* C18 as claimed: for every container of a supported width with a whole
\* number of frames, decoding it and encoding the matrix with the same
\* format reproduces the stored samples; and for every matrix M within
\* the width's domain, decoding what encoding M wrote returns M.
C18_EncodeInvertsDecode ==
  /\ ( /\ EncodedTheDecoded
       /\ Len(Val(last.files[Val(last.prev).path]).raw) % last.n_channels = 0 )
     => /\ last.raised = ""
        /\ Val(fs[last.path]).raw = Val(last.files[Val(last.prev).path]).raw
  /\ DecodedTheEncoded => last.rd.data = Val(last.prev).data

\* C18, amended: the same for containers whose header declares a positive
\* sample rate and for matrices M of at least one frame.
C18_EncodeInvertsDecodeNonEmpty ==
  /\ ( /\ EncodedTheDecoded
       /\ Len(Val(last.files[Val(last.prev).path]).raw) % last.n_channels = 0
       /\ last.sample_rate > 0 )
     => /\ last.raised = ""
        /\ Val(fs[last.path]).raw = Val(last.files[Val(last.prev).path]).raw
  /\ ( /\ DecodedTheEncoded
       /\ Len(Val(Val(last.prev).data).flat) > 0 )
     => last.rd.data = Val(last.prev).data

C18_Witness ==
  /\ DecodedTheEncoded
  /\ Val(last.prev).sampwidth = 1
  /\ Val(last.prev).data = Some(Arr2(2, 2, <<-128, 127, 0, -1>>))
  /\ Val(Container).raw = <<0, 255, 128, 127>>
  /\ last.rd.data = Val(last.prev).data

----------------------------------------------------------------------------
(* Numeric domains of the keystream and of the masked samples *)

\* the values rng.integers(low, high, dtype) of a width's branch may return
MaskRange(sampwidth) ==
  CASE sampwidth = 1 -> 0..255
    [] sampwidth = 2 -> -32768..32767
    [] OTHER -> INT32_MIN..INT32_MAX

\* the internal sample domain of a width
SampleRange(sampwidth) ==
  CASE sampwidth = 1 -> -128..127
    [] sampwidth = 2 -> -32768..32767
    [] OTHER -> INT32_MIN..INT32_MAX

\* the on-disk value of an internal sample when nothing is clamped
Shifted(v, sampwidth) == IF sampwidth = 1 THEN v + 128 ELSE v

\* C21: for every supported width, every keystream value drawn for a matrix
\* lies in [0, 255] (1 byte), the int16 range (2 bytes) or the int32 range
\* (4 bytes); and for a matrix in the width's internal domain every masked
\* sample _apply_mask_core returns lies in that domain again ([-128, 127],
\* int16, int32), so that the encoder stores it shifted but unclamped.
C21_NumericDomains ==
  core.calls >= 2 =>
    LET mask   == Keystream(default_rng(self.seed), core.sampwidth,
                            Len(core.orig.flat))
        masked == core.data.flat
    IN  /\ \A j \in 1..Len(mask) : mask[j] \in MaskRange(core.sampwidth)
        /\ \A j \in 1..Len(masked) : masked[j] \in SampleRange(core.sampwidth)
        /\ to_disk(masked, core.sampwidth) =
             [j \in 1..Len(masked) |-> Shifted(masked[j], core.sampwidth)]

\* a 1-byte matrix holding both ends of [-128, 127] has been masked once
\* with a keystream holding both ends of [0, 255]
C21_Witness ==
  /\ core.calls = 2
  /\ core.sampwidth = 1
  /\ core.orig.flat = <<-128, 127>>
  /\ Keystream(default_rng(self.seed), 1, 2) = <<255, 0>>
  /\ core.data.flat = <<127, 127>>

----------------------------------------------------------------------------
(* load_waveform (WaveformData.py): the waveform preview of a WAV file *)

MaxRaw    == 8    \* samples stored in a file whose preview is taken
MaxPoints == 3    \* largest max_points passed to load_waveform

\* a float as the exact fraction num / den, den > 0.  Rounding to float32
\* is monotone and keeps -1.0 and 1.0, so the order of two values and
\* their place relative to [-1.0, 1.0] are those of the fractions.
Ratio(num, den) == [num |-> num, den |-> den]

\* np.frombuffer(raw, dtype) of the width, 8-bit data shifted by -128.
\* 4-byte samples are in units of 2^16, like their full scale in max_abs,
\* which leaves data / max_abs as it is for the multiples of 2^16 the
\* previewed files hold.
frombuffer(raw, sampwidth) ==
  CASE sampwidth = 1 -> [j \in 1..Len(raw) |-> raw[j] - 128]
    [] sampwidth = 2 -> raw
    [] OTHER -> [j \in 1..Len(raw) |-> raw[j] \div 65536]

max_abs(sampwidth) ==
  CASE sampwidth = 1 -> 127
    [] sampwidth = 2 -> 32768
    [] OTHER -> 32768

RECURSIVE sum(_)
sum(row) == IF row = <<>> THEN 0 ELSE row[1] + sum(Tail(row))

\* np.clip(x, -1.0, 1.0)
clip_unit(x) == Ratio(clip(x.num, -x.den, x.den), x.den)

\* linspace that leaves the end point out: step = (stop - start) / num
linspace_open(start, stop, num) ==
  [k \in 1..num |-> start + (((k - 1) * (stop - start)) \div num)]

\* np.linspace(start, stop, num=num, dtype=np.int64): start + k * step for
\* k = 0..num-1 with step = (stop - start) / (num - 1), the last one set
\* to stop, each rounded down
linspace(start, stop, num) ==
  [k \in 1..num |->
     IF num = 1 THEN start
     ELSE start + (((k - 1) * (stop - start)) \div (num - 1))]

\* the clipped, normalised channel average of every whole frame of an
\* opened file; <<>> where load_waveform returns [] before it has one
mono_of(wf) ==
  IF wf.raw = <<>> THEN <<>>
  ELSE IF wf.sampwidth \notin {1, 2, 4} THEN <<>>
  ELSE
    LET n_channels == wf.nchannels
        data       == frombuffer(wf.raw, wf.sampwidth)
        frames     == Len(data) \div n_channels
    IN  [f \in 1..frames |->
           clip_unit(Ratio(sum(SubSeq(data, (f - 1) * n_channels + 1, f * n_channels)),
                           n_channels * max_abs(wf.sampwidth)))]

load_waveform(files, path, max_points) ==
  IF files[path] = None
  THEN <<>>
  ELSE IF Val(files[path]).nchannels < 1
  THEN <<>>
  ELSE
    LET mono == mono_of(Val(files[path]))
        n    == Len(mono)
    IN  IF n = 0 THEN <<>>
        ELSE IF n <= max_points THEN mono
        ELSE LET indices == linspace(0, n - 1, max_points)
             IN  [k \in 1..Len(indices) |-> mono[indices[k] + 1]]

\* the samples of a previewed file as stored, by width
WaveDisk(sampwidth) ==
  CASE sampwidth = 1 -> <<0, 255, 128, 1, 200, 64, 127, 129>>
    [] sampwidth = 4 -> <<INT32_MIN, 32767 * 65536, 0, 100 * 65536,
                          -200 * 65536, 16384 * 65536, -65536, 65536>>
    [] OTHER -> <<-32768, 32767, 0, 100, -200, 16384, -1, 1>>

WaveFiles ==
  { Unparseable } \cup
  { Wav(n_channels, sampwidth, 8000,
        [j \in 1..n |-> WaveDisk(sampwidth)[((j - 1) % 8) + 1]]) :
      n_channels \in Channels, sampwidth \in Widths, n \in 0..MaxRaw }

NoWaveCall == [op |-> "none", path |-> "in.wav", max_points |-> 0, ret |-> <<>>]

\* the callers pass no max_points (the default, 4000); the model draws it
\* from 2..MaxPoints
LoadWaveform(path, max_points) ==
  /\ last' = [op |-> "load_waveform", path |-> path, max_points |-> max_points,
              ret |-> load_waveform(fs, path, max_points)]
  /\ UNCHANGED <<pcg64, self, hist, core, fs, rx, win>>

InitWave ==
  /\ self = __init__(50, DefaultSeed)
  /\ pcg64 = [s \in {DefaultSeed} |-> [i \in 0..(MaxWords - 1) |-> <<255, 32768>>]]
  /\ last = NoWaveCall
  /\ hist = NoHist
  /\ core = NoCore
  /\ \E f \in {None} \cup { Some(w) : w \in WaveFiles } :
       fs = [NoFiles EXCEPT !["in.wav"] = f]
  /\ rx = NoRx(self.seed)
  /\ win = MainWindow

NextWave == \E path \in Paths, max_points \in 2..MaxPoints : LoadWaveform(path, max_points)

SpecWave == InitWave /\ [][NextWave]_vars

\* the mono-downmixed sequence of the file the last call was given
Mono ==
  IF fs[last.path] = None THEN <<>>
  ELSE IF Val(fs[last.path]).nchannels < 1 THEN <<>>
  ELSE mono_of(Val(fs[last.path]))

\* non-decreasing, evenly spaced (two steps differ by at most one) indices
\* into n samples, from 0 to n - 1
EvenlySpaced(idx, n) ==
  /\ idx[1] = 0
  /\ idx[Len(idx)] = n - 1
  /\ \A k \in 1..(Len(idx) - 1) : idx[k] <= idx[k + 1]
  /\ \A k, l \in 1..(Len(idx) - 1) :
       (idx[k + 1] - idx[k]) - (idx[l + 1] - idx[l]) \in {-1, 0, 1}

----------------------------------------------------------------------------
(* MainWindow (MainWindow.py): the button handlers of the two player panels *)

\* the fields of one panel, side "in" (top) or "out" (bottom)
Panel(w, side) ==
  IF side = "in"
  THEN [current_file |-> w.current_file_in, is_paused |-> w.is_paused_in,
        playback_state |-> w.playback_state_in]
  ELSE [current_file |-> w.current_file_out, is_paused |-> w.is_paused_out,
        playback_state |-> w.playback_state_out]

WithPanel(w, side, p) ==
  IF side = "in"
  THEN [w EXCEPT !.current_file_in = p.current_file, !.is_paused_in = p.is_paused,
                 !.playback_state_in = p.playback_state]
  ELSE [w EXCEPT !.current_file_out = p.current_file, !.is_paused_out = p.is_paused,
                 !.playback_state_out = p.playback_state]

\* on_play_clicked_in / on_play_clicked_out
on_play_clicked(p) ==
  IF p.current_file # None
  THEN [p EXCEPT !.playback_state = "playing", !.is_paused = FALSE]
  ELSE p

\* on_pause_resume_clicked that goes on to "playing" when there is no file
\* to resume
on_pause_resume_clicked_on(p) ==
  IF ~p.is_paused
  THEN [p EXCEPT !.playback_state = IF @ = "playing" THEN "paused" ELSE @,
                 !.is_paused = TRUE]
  ELSE [p EXCEPT !.playback_state = "playing", !.is_paused = FALSE]

\* on_pause_resume_clicked_in / on_pause_resume_clicked_out
on_pause_resume_clicked(p) ==
  IF ~p.is_paused
  THEN [p EXCEPT !.playback_state = IF @ = "playing" THEN "paused" ELSE @,
                 !.is_paused = TRUE]
  ELSE IF p.playback_state = "paused"
  THEN [p EXCEPT !.playback_state = "playing", !.is_paused = FALSE]
  ELSE IF p.playback_state = "stopped" /\ p.current_file = None
  THEN p
  ELSE [p EXCEPT !.playback_state = "playing", !.is_paused = FALSE]

\* on_stop_clicked_in / on_stop_clicked_out
on_stop_clicked(p) == [p EXCEPT !.playback_state = "stopped", !.is_paused = TRUE]

\* file_name is what the file dialog returned, "" when it was cancelled
on_open_clicked_in(w, file_name) ==
  IF file_name # ""
  THEN [w EXCEPT !.current_file_in = Some(file_name),
                 !.playback_state_in = "stopped", !.is_paused_in = FALSE]
  ELSE w

\* the window, the scrambler and the files after a click on Scramble or
\* Unscramble; called: the scrambler was called; wrote: it wrote its output.
\* An exception of the scrambler ends the handler where it is raised.
Clicked(w, r, called) ==
  [win |-> w, self |-> r.self, files |-> r.files, raised |-> r.raised,
   called |-> called, wrote |-> r.wrote]

on_scramble_clicked(w, s, files) ==
  IF w.current_file_in = None
  THEN Clicked(w, FileResult(s, files, "", FALSE), FALSE)
  ELSE
    LET r == scramble_file(s, files, Val(w.current_file_in), scrambled_temp_path)
    IN  IF r.raised # "" THEN Clicked(w, r, TRUE)
        ELSE Clicked([w EXCEPT !.current_file_out = Some(scrambled_temp_path),
                               !.playback_state_out = "stopped",
                               !.is_paused_out = FALSE,
                               !.is_out_scrambled = TRUE], r, TRUE)

on_unscramble_clicked(w, s, files) ==
  IF w.current_file_out = None
  THEN Clicked(w, FileResult(s, files, "", FALSE), FALSE)
  ELSE IF ~w.is_out_scrambled
  THEN Clicked(w, FileResult(s, files, "", FALSE), FALSE)
  ELSE
    LET r == unscramble_file(s, files, Val(w.current_file_out), unscrambled_temp_path)
    IN  IF r.raised # "" THEN Clicked(w, r, TRUE)
        ELSE Clicked([w EXCEPT !.current_file_out = Some(unscrambled_temp_path),
                               !.playback_state_out = "stopped",
                               !.is_paused_out = FALSE,
                               !.is_out_scrambled = FALSE], r, TRUE)

\* the files the user can pick in the dialog: a WAV file, a file that is
\* no WAV file and a 3-byte WAV file
Openable == {"in.wav", "notes.txt", "pcm24.wav"}

GuiPaths == Openable \cup {scrambled_temp_path, unscrambled_temp_path}

\* the WAV file: one stereo 8-bit frame or one mono 16-bit frame
GuiFiles == { Wav(2, 1, 8000, OnDisk(1, 2)), Wav(1, 2, 8000, OnDisk(2, 1)) }

\* what an earlier run left at a temporary path
Leftover == Wav(1, 2, 8000, <<7>>)

Sides == {"in", "out"}

NoClick == [op |-> "none", side |-> "in", before |-> MainWindow, called |-> FALSE,
            wrote |-> FALSE, raised |-> "", scrambled |-> None]

\* a click that only changes fields of the window
PanelClick(op, side, w) ==
  /\ win' = w
  /\ last' = [op |-> op, side |-> side, before |-> win, called |-> FALSE,
              wrote |-> FALSE, raised |-> "", scrambled |-> last.scrambled]
  /\ UNCHANGED <<pcg64, self, hist, core, fs, rx>>

OpenIn(file_name) ==
  PanelClick("on_open_clicked", "in", on_open_clicked_in(win, file_name))

Play(side) ==
  PanelClick("on_play_clicked", side,
             WithPanel(win, side, on_play_clicked(Panel(win, side))))

PauseResume(side) ==
  PanelClick("on_pause_resume_clicked", side,
             WithPanel(win, side, on_pause_resume_clicked(Panel(win, side))))

Stop(side) ==
  PanelClick("on_stop_clicked", side,
             WithPanel(win, side, on_stop_clicked(Panel(win, side))))

\* scrambled: whether the scramble_file call of the latest Scramble click
\* that made one wrote its output
Scramble ==
  LET c == on_scramble_clicked(win, self, fs)
  IN  /\ win' = c.win
      /\ self' = c.self
      /\ fs' = c.files
      /\ last' = [op |-> "on_scramble_clicked", side |-> "out", before |-> win,
                  called |-> c.called, wrote |-> c.wrote, raised |-> c.raised,
                  scrambled |-> IF c.called THEN Some(c.wrote) ELSE last.scrambled]
      /\ UNCHANGED <<pcg64, hist, core, rx>>

Unscramble ==
  LET c == on_unscramble_clicked(win, self, fs)
  IN  /\ win' = c.win
      /\ self' = c.self
      /\ fs' = c.files
      /\ last' = [op |-> "on_unscramble_clicked", side |-> "out", before |-> win,
                  called |-> c.called, wrote |-> c.wrote, raised |-> c.raised,
                  scrambled |-> last.scrambled]
      /\ UNCHANGED <<pcg64, hist, core, rx>>

InitGui ==
  /\ self = __init__(50, DefaultSeed)
  /\ pcg64 = [s \in {DefaultSeed} |-> [i \in 0..(MaxWords - 1) |-> <<255, 32768>>]]
  /\ last = NoClick
  /\ hist = NoHist
  /\ core = NoCore
  /\ \E w \in GuiFiles, old \in {None, Some(Leftover)} :
       fs = [p \in GuiPaths |->
               CASE p = "in.wav" -> Some(w)
                 [] p = "notes.txt" -> Some(Unparseable)
                 [] p = "pcm24.wav" -> Some(Wav(1, 3, 8000, <<1, 2, 3>>))
                 [] p = scrambled_temp_path -> old
                 [] OTHER -> None]
  /\ rx = NoRx(self.seed)
  /\ win = MainWindow

NextGui ==
  \/ \E file_name \in Openable \cup {""} : OpenIn(file_name)
  \/ \E side \in Sides : Play(side)
  \/ \E side \in Sides : PauseResume(side)
  \/ \E side \in Sides : Stop(side)
  \/ Scramble
  \/ Unscramble

SpecGui == InitGui /\ [][NextGui]_vars

----------------------------------------------------------------------------
(* Properties of the window *)

\* C23: whenever is_out_scrambled is True, current_file_out is the
\* temporary scrambled file and the scramble_file call of the latest
\* Scramble click wrote it; a Scramble click whose scramble_file call
\* returned without writing leaves is_out_scrambled False and
\* current_file_out not at the temporary scrambled file; and an Unscramble
\* click calls unscramble_file only when is_out_scrambled is True, and
\* leaves it False.
C23_MarkedOnlyIfScrambled ==
  /\ win.is_out_scrambled =>
       /\ win.current_file_out = Some(scrambled_temp_path)
       /\ last.scrambled = Some(TRUE)
  /\ ( last.op = "on_scramble_clicked" /\ last.called /\ ~last.wrote ) =>
       /\ ~win.is_out_scrambled
       /\ win.current_file_out # Some(scrambled_temp_path)
  /\ ( last.op = "on_unscramble_clicked" /\ last.called ) =>
       /\ last.before.is_out_scrambled
       /\ ~win.is_out_scrambled

\* C24: for both panels, after any sequence of clicks: playback_state is
\* "stopped", "playing" or "paused"; "playing" implies is_paused False and
\* a current file; "paused" implies is_paused True; and a Resume click
\* (is_paused True) in the stopped state with no file changes neither
\* playback_state nor is_paused.
C24_PlaybackState ==
  /\ \A side \in Sides :
       LET p == Panel(win, side)
       IN  /\ p.playback_state \in {"stopped", "playing", "paused"}
           /\ p.playback_state = "playing" => ~p.is_paused /\ p.current_file # None
           /\ p.playback_state = "paused" => p.is_paused
  /\ ( /\ last.op = "on_pause_resume_clicked"
       /\ Panel(last.before, last.side).is_paused
       /\ Panel(last.before, last.side).playback_state = "stopped"
       /\ Panel(last.before, last.side).current_file = None )
     => /\ Panel(win, last.side).playback_state = "stopped"
        /\ Panel(win, last.side).is_paused

\* a Resume click on the output panel, stopped and without a file, while
\* the input panel is paused
C24_Witness ==
  /\ last.op = "on_pause_resume_clicked"
  /\ last.side = "out"
  /\ last.before.is_paused_out
  /\ last.before.playback_state_out = "stopped"
  /\ last.before.current_file_out = None
  /\ win = last.before
  /\ win.playback_state_in = "paused"
  /\ win.is_paused_in

====
